---- MODULE Spec2Model ----
(***************************************************************************)
(* Model of the mcp-openweather servers.                                   *)
(*                                                                         *)
(*   src/server_cache.py          WeatherServer: the cached, counted       *)
(*                                current_weather tool with a lifespan     *)
(*   src/mcp_openweather/server.py  the FastMCP current_weather tool       *)
(*                                (no cache, no counters)                  *)
(*                                                                         *)
(* Python values: a dict is a TLA+ record/function, an optional value      *)
(* (x | None) is a sequence of length at most one, datetime values are     *)
(* integers counting minutes since the process was created.                *)
(***************************************************************************)
EXTENDS Integers, Sequences, FiniteSets, TLC

(* ---------------------------------------------------------------- bounds *)
\* number of tool invocations the transport delivers in one run
MaxReq == 3
\* the clock stops advancing at this minute
MaxTime == 7
\* largest counter value the statistics are computed from in SpecStats
MaxCount == 7

(* ------------------------------------------------------------- constants *)
\* timedelta(minutes=5) in cache_weather
TTL == 5

Reqs == 1..MaxReq

\* city names as provided by callers; dict keys are compared exactly
Cities == {"Paris", "paris"}

None == <<>>
Some(v) == <<v>>

\* the arguments dict of a call_tool request: with a city (possibly the
\* empty string) or without the "city" key
NoCityArgs == [units |-> "metric"]
ArgDicts == {[city |-> c] : c \in Cities \cup {""}} \cup {NoCityArgs}

\* what the two HTTP calls of the provider can do
ProviderOutcomes == {"ok", "no_location", "request_exception", "key_error"}

VARIABLES
    module,         \* which entry point runs: "server_cache" or "server"
    api_key,        \* os.getenv("OPENWEATHER_API_KEY") is set
    phase,          \* "created", "serving", "failed", "stopped", "crashed"
    now,            \* datetime.now()
    api_calls,      \* ctx.api_calls
    cache_hits,     \* ctx.cache_hits
    cache_misses,   \* ctx.cache_misses
    weather_cache,  \* ctx.weather_cache: city -> CacheEntry
    tasks,          \* the tool invocations: position, arguments, outcome
    running,        \* the invocation inside its blocking HTTP calls, 0 if none
    summary         \* what the lifespan printed at shutdown

vars == <<module, api_key, phase, now, api_calls, cache_hits, cache_misses,
          weather_cache, tasks, running, summary>>

ctx == <<api_calls, cache_hits, cache_misses, weather_cache>>

(* ----------------------------------------------------------- CacheEntry *)
CacheEntry(data, expire_at) == [data |-> data, expire_at |-> expire_at]

\* dict.get(key): the value, or None
Get(d, k) == IF k \in DOMAIN d THEN Some(d[k]) ELSE None

\* a check that only rejects a missing city: `if city is None`
Truthy_NoneOnly(opt) == opt # None

\* Python truthiness of an optional string: `not city` rejects None and ""
Truthy(opt) == opt # None /\ opt[1] # ""

(* ------------------------------------------------- WeatherServerContext *)
\* the comparison turned round: entry.expire_at > datetime.now()
IsExpired_Flipped(entry, t) == entry.expire_at > t

\* entry.expire_at < datetime.now()
IsExpired(entry, t) == entry.expire_at < t

\* get_cached_weather without `self.cache_misses += 1` on the expired path
get_cached_weather_ExpiredUncounted(city, t) ==
    IF city \notin DOMAIN weather_cache
    THEN [ret |-> None, weather_cache |-> weather_cache,
          cache_hits |-> cache_hits, cache_misses |-> cache_misses + 1]
    ELSE LET entry == weather_cache[city] IN
         IF IsExpired(entry, t)
         THEN [ret |-> None,
               weather_cache |-> [k \in DOMAIN weather_cache \ {city} |-> weather_cache[k]],
               cache_hits |-> cache_hits, cache_misses |-> cache_misses]
         ELSE [ret |-> Some(entry.data), weather_cache |-> weather_cache,
               cache_hits |-> cache_hits + 1, cache_misses |-> cache_misses]

\* get_cached_weather with a sliding expiry: a hit sets
\* entry.expire_at = datetime.now() + timedelta(minutes=5)
get_cached_weather_Renewing(city, t) ==
    IF city \notin DOMAIN weather_cache
    THEN [ret |-> None, weather_cache |-> weather_cache,
          cache_hits |-> cache_hits, cache_misses |-> cache_misses + 1]
    ELSE LET entry == weather_cache[city] IN
         IF IsExpired(entry, t)
         THEN [ret |-> None,
               weather_cache |-> [k \in DOMAIN weather_cache \ {city} |-> weather_cache[k]],
               cache_hits |-> cache_hits, cache_misses |-> cache_misses + 1]
         ELSE [ret |-> Some(entry.data),
               weather_cache |-> [weather_cache EXCEPT ![city].expire_at = t + TTL],
               cache_hits |-> cache_hits + 1, cache_misses |-> cache_misses]

\* get_cached_weather with `=` for `+=` on the expired path:
\* self.cache_misses = 1
get_cached_weather_ExpiredResets(city, t) ==
    IF city \notin DOMAIN weather_cache
    THEN [ret |-> None, weather_cache |-> weather_cache,
          cache_hits |-> cache_hits, cache_misses |-> cache_misses + 1]
    ELSE LET entry == weather_cache[city] IN
         IF IsExpired(entry, t)
         THEN [ret |-> None,
               weather_cache |-> [k \in DOMAIN weather_cache \ {city} |-> weather_cache[k]],
               cache_hits |-> cache_hits, cache_misses |-> 1]
         ELSE [ret |-> Some(entry.data), weather_cache |-> weather_cache,
               cache_hits |-> cache_hits + 1, cache_misses |-> cache_misses]

\* get_cached_weather that sweeps: a lookup drops every expired entry
get_cached_weather_Sweeping(city, t) ==
    LET live == {k \in DOMAIN weather_cache : ~IsExpired(weather_cache[k], t)}
        swept == [k \in live |-> weather_cache[k]]
    IN IF city \notin live
       THEN [ret |-> None, weather_cache |-> swept,
             cache_hits |-> cache_hits, cache_misses |-> cache_misses + 1]
       ELSE [ret |-> Some(weather_cache[city].data), weather_cache |-> swept,
             cache_hits |-> cache_hits + 1, cache_misses |-> cache_misses]

\* get_cached_weather(city) at time t: the returned value and the context
\* it leaves behind
get_cached_weather(city, t) ==
    IF city \notin DOMAIN weather_cache
    THEN [ret |-> None, weather_cache |-> weather_cache,
          cache_hits |-> cache_hits, cache_misses |-> cache_misses + 1]
    ELSE LET entry == weather_cache[city] IN
         IF IsExpired(entry, t)
         THEN [ret |-> None,
               weather_cache |-> [k \in DOMAIN weather_cache \ {city} |-> weather_cache[k]],
               cache_hits |-> cache_hits, cache_misses |-> cache_misses + 1]
         ELSE [ret |-> Some(entry.data), weather_cache |-> weather_cache,
               cache_hits |-> cache_hits + 1, cache_misses |-> cache_misses]

\* str.lower() on the city names of the model
Lower(city) == IF city = "Paris" THEN "paris" ELSE city

\* cache_weather storing under a normalised key: weather_cache[city.lower()]
cache_weather_Lowercased(city, weather_data, t) ==
    [k \in DOMAIN weather_cache \cup {Lower(city)} |->
        IF k = Lower(city) THEN CacheEntry(weather_data, t + TTL) ELSE weather_cache[k]]

\* cache_weather with timedelta(hours=5) for timedelta(minutes=5)
cache_weather_Hours(city, weather_data, t) ==
    [k \in DOMAIN weather_cache \cup {city} |->
        IF k = city THEN CacheEntry(weather_data, t + 60 * TTL) ELSE weather_cache[k]]

\* cache_weather(city, weather_data) at time t: the new weather_cache
cache_weather(city, weather_data, t) ==
    [k \in DOMAIN weather_cache \cup {city} |->
        IF k = city THEN CacheEntry(weather_data, t + TTL) ELSE weather_cache[k]]

\* the formatted response built from the provider's answer to the n-th
\* provider call, made for `city`: every call observes the weather anew, and
\* only what identifies the record is kept of its fields
formatted_response(city, n) == [query |-> city, observation |-> n]

\* what get_weather_from_api hands back once the HTTP calls are over:
\* a returned dict, or an exception it does not catch
ApiResult(city, o) ==
    CASE o = "ok"                -> [ret |-> formatted_response(city, api_calls)]
      [] o = "no_location"       -> [ret |-> [error |-> "no_location"]]
      [] o = "request_exception" -> [ret |-> [error |-> "api_error"]]
      [] o = "key_error"         -> [exc |-> "KeyError", msg |-> "malformed_payload"]

\* self.api_calls += 1 left out of get_weather_from_api
get_weather_from_api_calls_Uncounted == api_calls

\* self.api_calls += 1, the first statement of get_weather_from_api
get_weather_from_api_calls == api_calls + 1

\* a misspelt key: "errors" not in weather_data
IsError_Typo(weather_data) == "errors" \in DOMAIN weather_data

\* "error" in weather_data
IsError(weather_data) == "error" \in DOMAIN weather_data

(* ------------------------------------------------------------- tasks *)
\* pc: "idle" (not yet sent), "pending" (delivered, handler not yet run),
\*     "api" (inside the blocking HTTP calls), "done"
\* lookup: what get_cached_weather told this invocation: "none", "hit", "miss"
\* out: the handler's outcome once done: [ret |-> dict] or [exc |-> ..., msg |-> ...]
\* cancelled: the host transport has cancelled the invocation, which is
\*     still in flight
Idle == [pc |-> "idle", arguments |-> NoCityArgs, lookup |-> "none", out |-> None,
         cancelled |-> FALSE]

SetTask(r, pc, lookup, out) ==
    tasks' = [tasks EXCEPT ![r] = [pc |-> pc, arguments |-> tasks[r].arguments,
                                   lookup |-> lookup, out |-> out,
                                   cancelled |-> tasks[r].cancelled /\ pc # "done"]]

CityOf(r) == tasks[r].arguments.city

(* ------------------------------------------------------------- Init *)
Init ==
    /\ module \in {"server_cache", "server"}
    /\ api_key \in BOOLEAN
    /\ phase = "created"
    /\ now = 0
    /\ api_calls = 0
    /\ cache_hits = 0
    /\ cache_misses = 0
    /\ weather_cache = [k \in {} |-> CacheEntry(None, 0)]
    /\ tasks = [r \in Reqs |-> Idle]
    /\ running = 0
    /\ summary = None

(* -------------------------------------------------------- lifecycle *)
\* weather_lifespan up to its yield: the credential check, then the context
LifespanStart ==
    /\ module = "server_cache"
    /\ phase = "created"
    /\ phase' = IF api_key THEN "serving" ELSE "failed"
    /\ UNCHANGED <<module, api_key, now, ctx, tasks, running, summary>>

\* mcp = FastMCP("Weather"): the tool is registered and served, no check
FastMCPStart ==
    /\ module = "server"
    /\ phase = "created"
    /\ phase' = "serving"
    /\ UNCHANGED <<module, api_key, now, ctx, tasks, running, summary>>

(* ------------------------------------------------------- statistics *)
\* the rate computed from api_calls instead of the queries
hit_rate_PerApiCall(hits, misses, calls) ==
    IF calls > 0 THEN [num |-> hits * 100, den |-> calls] ELSE [num |-> 0, den |-> 1]

\* hit_rate = (cache_hits / total_queries * 100) if total_queries > 0 else 0,
\* as the fraction num / den
hit_rate(hits, misses, calls) ==
    LET total_queries == hits + misses IN
    IF total_queries > 0 THEN [num |-> hits * 100, den |-> total_queries]
                         ELSE [num |-> 0, den |-> 1]

\* f"{x:.1f}": x rounded to one decimal, given in tenths.  The rates of the
\* model are never half-way between two tenths (that needs a total that is
\* a multiple of 16 with an odd number of hits), so the rounding mode of a
\* tie does not matter.
FormatOneDecimal(x) == (x.num * 20 + x.den) \div (2 * x.den)

\* the four lines printed by the finally block of weather_lifespan
StatsSummary ==
    [api_calls |-> api_calls, cache_hits |-> cache_hits, cache_misses |-> cache_misses,
     hit_rate |-> FormatOneDecimal(hit_rate(cache_hits, cache_misses, api_calls))]

\* why serving ends: the transport closed, or server.run raised
StopCauses == {"closed", "error"}

\* the statistics printed after the yield without try/finally: an exception
\* thrown into the lifespan skips them
LifespanStop_NoFinally(cause) ==
    /\ module = "server_cache"
    /\ phase = "serving"
    /\ running = 0
    /\ phase' = IF cause = "closed" THEN "stopped" ELSE "crashed"
    /\ summary' = IF cause = "closed" THEN Some(StatsSummary) ELSE summary
    /\ UNCHANGED <<module, api_key, now, ctx, tasks, running>>

\* weather_lifespan after its yield, left normally or by an exception: the
\* finally block prints the statistics
LifespanStop(cause) ==
    /\ module = "server_cache"
    /\ phase = "serving"
    /\ running = 0
    /\ phase' = IF cause = "closed" THEN "stopped" ELSE "crashed"
    /\ summary' = Some(StatsSummary)
    /\ UNCHANGED <<module, api_key, now, ctx, tasks, running>>

\* the wall clock advances
Tick ==
    /\ phase = "serving"
    /\ now < MaxTime
    /\ now' = now + 1
    /\ UNCHANGED <<module, api_key, phase, ctx, tasks, running, summary>>

\* the transport delivers a tool invocation; FastMCP validates the
\* arguments against current_weather(city: str) before calling it
Arrive(r, args) ==
    /\ phase = "serving"
    /\ tasks[r].pc = "idle"
    /\ r > 1 => tasks[r - 1].pc # "idle"
    /\ module = "server" => "city" \in DOMAIN args
    /\ tasks' = [tasks EXCEPT ![r] = [pc |-> "pending", arguments |-> args,
                                      lookup |-> "none", out |-> None,
                                      cancelled |-> FALSE]]
    /\ UNCHANGED <<module, api_key, phase, now, ctx, running, summary>>

\* the host transport cancels an invocation whose provider call is
\* outstanding.  A cancellation reaches a coroutine at an await; the handler
\* has none and sits in the synchronous requests.get, so it is not
\* interrupted and goes on to its return
Cancel(r) ==
    /\ module = "server_cache"
    /\ phase = "serving"
    /\ tasks[r].pc = "api"
    /\ ~tasks[r].cancelled
    /\ tasks' = [tasks EXCEPT ![r].cancelled = TRUE]
    /\ UNCHANGED <<module, api_key, phase, now, ctx, running, summary>>

(* ---------------------------------------------- WeatherServer handler *)
\* Scheduling.  _handle_call_tool is a coroutine without a single await, and
\* get_weather_from_api calls the synchronous requests.get: once the event
\* loop enters the handler it runs to its return, HTTP calls included, and
\* no other invocation is entered meanwhile (running # 0).  The loop takes
\* up the delivered invocations first-in first-out.
\* _handle_call_tool from its entry to the blocking requests.get: the
\* argument check, the cache lookup, and api_calls += 1 on a miss
HandleCallTool(r) ==
    /\ module = "server_cache"
    /\ phase = "serving"
    /\ running = 0
    /\ tasks[r].pc = "pending"
    /\ \A q \in 1..(r - 1) : tasks[q].pc # "pending"
    /\ LET city == Get(tasks[r].arguments, "city") IN
       IF ~Truthy(city)
       THEN /\ SetTask(r, "done", "none", Some([exc |-> "ValueError", msg |-> "missing_city"]))
            /\ UNCHANGED <<ctx, running>>
       ELSE LET g == get_cached_weather(city[1], now) IN
            /\ weather_cache' = g.weather_cache
            /\ cache_hits' = g.cache_hits
            /\ cache_misses' = g.cache_misses
            /\ IF g.ret # None
               THEN /\ SetTask(r, "done", "hit", Some([ret |-> g.ret[1]]))
                    /\ UNCHANGED <<api_calls, running>>
               ELSE /\ api_calls' = get_weather_from_api_calls
                    /\ SetTask(r, "api", "miss", None)
                    /\ running' = r
    /\ UNCHANGED <<module, api_key, phase, now, summary>>

\* _handle_call_tool from the return of the HTTP calls to its end:
\* the result of get_weather_from_api, cached when it is not an error
ApiReturn(r, o) ==
    /\ module = "server_cache"
    /\ running = r
    /\ tasks[r].pc = "api"
    /\ LET res == ApiResult(CityOf(r), o) IN
       /\ SetTask(r, "done", "miss", Some(res))
       /\ weather_cache' =
            IF "ret" \in DOMAIN res /\ ~IsError(res.ret)
            THEN cache_weather(CityOf(r), res.ret, now)
            ELSE weather_cache
    /\ running' = 0
    /\ UNCHANGED <<module, api_key, phase, now, api_calls, cache_hits,
                   cache_misses, summary>>

(* ------------------------------------------- FastMCP current_weather *)
\* current_weather from its entry to the blocking requests.get: the
\* credential is read and checked on every call
CurrentWeather(r) ==
    /\ module = "server"
    /\ phase = "serving"
    /\ running = 0
    /\ tasks[r].pc = "pending"
    /\ \A q \in 1..(r - 1) : tasks[q].pc # "pending"
    /\ IF ~api_key
       THEN /\ SetTask(r, "done", "none", Some([exc |-> "ValueError", msg |-> "api_key_not_set"]))
            /\ UNCHANGED running
       ELSE /\ SetTask(r, "api", "none", None)
            /\ running' = r
    /\ UNCHANGED <<module, api_key, phase, now, ctx, summary>>

\* current_weather from the return of the HTTP calls to its end
CurrentWeatherReturn(r, o) ==
    /\ module = "server"
    /\ running = r
    /\ tasks[r].pc = "api"
    /\ SetTask(r, "done", "none", Some(ApiResult(CityOf(r), o)))
    /\ running' = 0
    /\ UNCHANGED <<module, api_key, phase, now, ctx, summary>>

Next ==
    \/ LifespanStart
    \/ FastMCPStart
    \/ \E cause \in StopCauses : LifespanStop(cause)
    \/ Tick
    \/ \E r \in Reqs, args \in ArgDicts : Arrive(r, args)
    \/ \E r \in Reqs : Cancel(r)
    \/ \E r \in Reqs : HandleCallTool(r)
    \/ \E r \in Reqs, o \in ProviderOutcomes : ApiReturn(r, o)
    \/ \E r \in Reqs : CurrentWeather(r)
    \/ \E r \in Reqs, o \in ProviderOutcomes : CurrentWeatherReturn(r, o)

Spec == Init /\ [][Next]_vars

(* ------------------------------------------- the statistics, on their own *)
\* a serving context whose counters stand at any values a run can leave:
\* a hit needs an entry and so an earlier miss, every miss called the
\* provider, and the first miss stored the entry the hits were served from
InitStats ==
    /\ module = "server_cache"
    /\ api_key = TRUE
    /\ phase = "serving"
    /\ now = 0
    /\ cache_hits \in 0..MaxCount
    /\ cache_misses \in 0..MaxCount
    /\ cache_hits > 0 => cache_misses > 0
    /\ api_calls = cache_misses
    /\ weather_cache = IF cache_misses > 0
                       THEN [k \in {"Paris"} |-> CacheEntry(formatted_response("Paris", 1), 0 + TTL)]
                       ELSE [k \in {} |-> CacheEntry(None, 0)]
    /\ tasks = [r \in Reqs |-> Idle]
    /\ running = 0
    /\ summary = None

NextStats == \E cause \in StopCauses : LifespanStop(cause)

SpecStats == InitStats /\ [][NextStats]_vars

(***************************************************************************)
(* Properties                                                              *)
(***************************************************************************)
\* the city a delivered invocation asks for, when it names one
HasCity(r) == "city" \in DOMAIN tasks[r].arguments /\ tasks[r].arguments.city # ""

\* invocation r ended by returning an {"error": ...} dict
ReturnedError(r) ==
    /\ tasks[r].pc = "done"
    /\ "ret" \in DOMAIN tasks[r].out[1]
    /\ "error" \in DOMAIN tasks[r].out[1].ret

\* invocation r ended by returning a weather record
ReturnedRecord(r) ==
    /\ tasks[r].pc = "done"
    /\ "ret" \in DOMAIN tasks[r].out[1]
    /\ "error" \notin DOMAIN tasks[r].out[1].ret

\* invocation r ended by raising
Raised(r) == tasks[r].pc = "done" /\ "exc" \in DOMAIN tasks[r].out[1]

(* ---- C1 ---- *)
\* C1: every lookup get_cached_weather(city) at time now returns a record
\* only if the entry's expire_at is strictly later than now; an entry with
\* expire_at <= now (expire_at = now included) makes the lookup return
\* absent, count one miss, and leave the city without an entry.
C1_ExpiredEntryNeverReturned ==
    [][\A r \in Reqs :
        (HandleCallTool(r) /\ HasCity(r)) =>
            LET c == CityOf(r) IN
            /\ tasks'[r].lookup = "hit" =>
                  (c \in DOMAIN weather_cache /\ weather_cache[c].expire_at > now)
            /\ (c \in DOMAIN weather_cache /\ weather_cache[c].expire_at <= now) =>
                  /\ tasks'[r].lookup = "miss"
                  /\ cache_misses' = cache_misses + 1
                  /\ c \notin DOMAIN weather_cache']_vars

(* ---- C2 ---- *)
FailureOutcomes == {"no_location", "request_exception"}

\* C2: a request for city C whose provider call fails (no location, or a
\* network / non-2xx error) creates or replaces no cache entry and leaves C
\* without one; every such request counted a miss and reached the provider,
\* so two failing requests for one city from a fresh service leave
\* api_calls = 2, cache_misses = 2, cache_hits = 0.
C2_FailedFetchNeverCached ==
    /\ [][\A r \in Reqs, o \in FailureOutcomes :
            ApiReturn(r, o) =>
                /\ weather_cache' = weather_cache
                /\ CityOf(r) \notin DOMAIN weather_cache'
                /\ UNCHANGED <<api_calls, cache_hits, cache_misses>>]_vars
    /\ [](module = "server_cache" =>
            /\ \A r \in Reqs : ReturnedError(r) => tasks[r].lookup = "miss"
            /\ api_calls = Cardinality({r \in Reqs : tasks[r].lookup = "miss"})
            /\ \A r \in Reqs :
                 ( /\ r + 1 \in Reqs
                   /\ ReturnedError(r) /\ ReturnedError(r + 1)
                   /\ CityOf(r) = CityOf(r + 1)
                   /\ \A q \in Reqs \ {r, r + 1} : tasks[q].pc \in {"idle", "pending"} )
                 => (api_calls = 2 /\ cache_misses = 2 /\ cache_hits = 0))

\* two failing requests for the same city, both of which reached the provider
C2_Witness ==
    /\ module = "server_cache"
    /\ ReturnedError(1) /\ ReturnedError(2)
    /\ CityOf(1) = CityOf(2)
    /\ tasks[1].out[1].ret.error = "no_location"
    /\ tasks[2].out[1].ret.error = "api_error"
    /\ CityOf(1) \notin DOMAIN weather_cache
    /\ api_calls = 2

(* ---- C3 ---- *)
\* C3: a successful fetch for C stores the returned record R with
\* expire_at = time of storing + 5 minutes; every request for C before that
\* expiry returns exactly R, adds 1 to cache_hits and leaves api_calls,
\* cache_misses and the cache unchanged without invoking the provider; a
\* request for C after the expiry is a miss again and adds 1 to api_calls.
C3_HitWithinTTLThenMiss ==
    /\ [][\A r \in Reqs :
            ApiReturn(r, "ok") =>
                /\ weather_cache'[CityOf(r)].data = tasks'[r].out[1].ret
                /\ weather_cache'[CityOf(r)].expire_at = now + TTL]_vars
    /\ [][\A r \in Reqs :
            (HandleCallTool(r) /\ HasCity(r) /\ CityOf(r) \in DOMAIN weather_cache) =>
                LET entry == weather_cache[CityOf(r)] IN
                /\ now < entry.expire_at =>
                      /\ tasks'[r].pc = "done"
                      /\ tasks'[r].out = Some([ret |-> entry.data])
                      /\ cache_hits' = cache_hits + 1
                      /\ UNCHANGED <<api_calls, cache_misses, weather_cache, running>>
                /\ now > entry.expire_at =>
                      /\ tasks'[r].pc = "api"
                      /\ cache_misses' = cache_misses + 1
                      /\ api_calls' = api_calls + 1
                      /\ cache_hits' = cache_hits]_vars

\* Paris fetched, then served from the cache, then fetched again after expiry
C3_Witness ==
    /\ module = "server_cache"
    /\ \A r \in 1..3 : tasks[r].pc = "done" /\ tasks[r].arguments = [city |-> "Paris"]
    /\ tasks[1].lookup = "miss" /\ ReturnedRecord(1)
    /\ tasks[2].lookup = "hit" /\ tasks[2].out = tasks[1].out
    /\ tasks[3].lookup = "miss" /\ ReturnedRecord(3)
    /\ tasks[3].out # tasks[1].out
    /\ weather_cache["Paris"].data = tasks[3].out[1].ret
    /\ api_calls = 2 /\ cache_hits = 1 /\ cache_misses = 2


(* ---- C4 ---- *)
\* C4: every per-request error of the cached server (missing or empty city,
\* location not found, upstream failure, malformed upstream payload) is
\* returned as an {error: ...} value and never raised out of the handler.
C4_ErrorsReturnedNeverRaised ==
    module = "server_cache" => \A r \in Reqs : ~Raised(r)

(* ---- C5 ---- *)
\* C5: a request whose city is absent or the empty string is rejected
\* before the cache or the provider is touched: api_calls, cache_hits,
\* cache_misses and the cache are unchanged and no provider call starts.
C5_EmptyCityTouchesNothing ==
    [][\A r \in Reqs :
        (HandleCallTool(r) /\ ~HasCity(r)) =>
            /\ UNCHANGED <<api_calls, cache_hits, cache_misses, weather_cache>>
            /\ tasks'[r].pc = "done"
            /\ tasks'[r].lookup = "none"
            /\ tasks'[r].out[1].msg = "missing_city"
            /\ running' = 0]_vars

\* an empty city and an absent city both rejected by a service that already
\* holds an entry
C5_Witness ==
    /\ module = "server_cache"
    /\ ReturnedRecord(1)
    /\ tasks[2].arguments = [city |-> ""] /\ Raised(2)
    /\ tasks[3].arguments = NoCityArgs /\ Raised(3)
    /\ DOMAIN weather_cache # {}
    /\ api_calls = 1 /\ cache_misses = 1 /\ cache_hits = 0

(* ---- C6 ---- *)
\* C6: a missing credential is fatal at startup and never a per-request
\* error: without it the service does not start and no invocation is ever
\* delivered or handled, and no request outcome is a configuration error.
C6_MissingCredentialFatalAtStartup ==
    /\ ~api_key => (phase \in {"created", "failed"} /\ \A r \in Reqs : tasks[r].pc = "idle")
    /\ \A r \in Reqs : tasks[r].pc \in {"api", "done"} => api_key
    /\ \A r \in Reqs : Raised(r) => tasks[r].out[1].msg # "api_key_not_set"

(* ---- C7 ---- *)
\* C7: no counter update is lost under any interleaving of invocations:
\* cache_hits + cache_misses counts exactly the invocations that reached the
\* cache lookup (those with a non-empty city that the handler has taken up),
\* each of which produced exactly one hit or one miss, and every cache entry
\* a lookup can see is a whole entry.
C7_NoLostCounterUpdate ==
    module = "server_cache" =>
        /\ cache_hits = Cardinality({r \in Reqs : tasks[r].lookup = "hit"})
        /\ cache_misses = Cardinality({r \in Reqs : tasks[r].lookup = "miss"})
        /\ \A r \in Reqs :
             (tasks[r].pc \in {"api", "done"} /\ HasCity(r)) <=> tasks[r].lookup \in {"hit", "miss"}
        /\ cache_hits + cache_misses =
             Cardinality({r \in Reqs : tasks[r].pc \in {"api", "done"} /\ HasCity(r)})
        /\ \A c \in DOMAIN weather_cache :
             /\ DOMAIN weather_cache[c] = {"data", "expire_at"}
             /\ DOMAIN weather_cache[c].data = {"query", "observation"}

\* three invocations delivered together, all completed: a miss, a hit, and a
\* miss on the expired entry
C7_Witness ==
    /\ module = "server_cache"
    /\ \A r \in 1..3 : tasks[r].pc = "done" /\ HasCity(r)
    /\ tasks[1].lookup = "miss" /\ tasks[2].lookup = "hit" /\ tasks[3].lookup = "miss"
    /\ CityOf(1) = CityOf(3) /\ ReturnedRecord(1)
    /\ cache_hits + cache_misses = 3

(* ---- C8 ---- *)
\* C8: the provider call is not made while the shared state is held: while
\* one request's provider call for city A is in flight, a delivered request
\* for a different city B can perform its cache lookup.
C8_LookupProceedsDuringOtherFetch ==
    \A r1, r2 \in Reqs :
        ( /\ module = "server_cache" /\ phase = "serving"
          /\ tasks[r1].pc = "api"
          /\ tasks[r2].pc = "pending" /\ HasCity(r2)
          /\ CityOf(r1) # CityOf(r2) )
        => ENABLED HandleCallTool(r2)

(* ---- C9 ---- *)
\* C9: in-flight fetches are not deduplicated per key: while one request's
\* provider call for city C is in flight, a second delivered request for the
\* same C can look C up, count a miss and invoke the provider as well.
C9_SameCityFetchesOverlap ==
    \A r1, r2 \in Reqs :
        ( /\ module = "server_cache" /\ phase = "serving"
          /\ tasks[r1].pc = "api"
          /\ tasks[r2].pc = "pending" /\ HasCity(r2)
          /\ CityOf(r1) = CityOf(r2) )
        => ENABLED (HandleCallTool(r2) /\ tasks'[r2].pc = "api")

(* ---- C10 ---- *)
\* C10: requests for two different cities that both succeed leave one entry
\* under each key holding the record fetched for that key; a successful
\* fetch writes only its own key; in every state the record under a key was
\* fetched by a request for exactly that key.
C10_EntriesKeyedByRequestedCity ==
    /\ [](\A c \in DOMAIN weather_cache : weather_cache[c].data.query = c)
    /\ [][\A r \in Reqs :
            ApiReturn(r, "ok") =>
                /\ DOMAIN weather_cache' = DOMAIN weather_cache \cup {CityOf(r)}
                /\ weather_cache'[CityOf(r)].data = formatted_response(CityOf(r), api_calls)
                /\ \A c \in DOMAIN weather_cache \ {CityOf(r)} :
                      weather_cache'[c] = weather_cache[c]]_vars

\* "Paris" and "paris" fetched by two requests, each under its own key
C10_Witness ==
    /\ module = "server_cache"
    /\ tasks[1].arguments = [city |-> "Paris"] /\ ReturnedRecord(1) /\ tasks[1].lookup = "miss"
    /\ tasks[2].arguments = [city |-> "paris"] /\ ReturnedRecord(2) /\ tasks[2].lookup = "miss"
    /\ DOMAIN weather_cache = {"Paris", "paris"}
    /\ weather_cache["Paris"].data = tasks[1].out[1].ret
    /\ weather_cache["paris"].data = tasks[2].out[1].ret
    /\ weather_cache["Paris"].data # weather_cache["paris"].data


(* ---- C11 ---- *)
\* C11: the reported hit rate is cache_hits / (cache_hits + cache_misses) as
\* a percentage, to the nearest tenth, when a query has been made, and 0
\* when none has; it is determined by hits and misses alone.  3 hits and 1
\* miss are reported as 75.0%.
C11_HitRateFromHitsAndMisses ==
    summary # None =>
        LET rate == summary[1].hit_rate
            total == cache_hits + cache_misses
        IN /\ total = 0 => rate = 0
           /\ total > 0 =>
                /\ 2 * (rate * total - 1000 * cache_hits) <= total
                /\ 2 * (1000 * cache_hits - rate * total) < total
           /\ (cache_hits = 3 /\ cache_misses = 1) => rate = 750
           /\ (cache_hits = 2 /\ cache_misses = 1) => rate = 667

\* the summary of a run with 3 hits and 1 miss
C11_Witness ==
    /\ summary # None
    /\ summary[1].cache_hits = 3 /\ summary[1].cache_misses = 1
    /\ summary[1].hit_rate = 750


(* ---- C12 ---- *)
\* C12: a cache hit does not renew the TTL: a lookup that hits leaves the
\* entry's expire_at and data as they were, an entry changes only when a
\* new successful fetch for its city stores one, and a lookup after an
\* entry's expire_at is a miss however many hits came before.
C12_HitDoesNotRenewTTL ==
    /\ [][\A r \in Reqs :
            (HandleCallTool(r) /\ tasks'[r].lookup = "hit") =>
                weather_cache' = weather_cache]_vars
    /\ [][\A c \in DOMAIN weather_cache :
            (c \in DOMAIN weather_cache' /\ weather_cache'[c] # weather_cache[c]) =>
                \E r \in Reqs : ApiReturn(r, "ok") /\ CityOf(r) = c]_vars
    /\ [][\A r \in Reqs :
            ( /\ HandleCallTool(r) /\ HasCity(r)
              /\ CityOf(r) \in DOMAIN weather_cache
              /\ now > weather_cache[CityOf(r)].expire_at )
            => (tasks'[r].lookup = "miss" /\ CityOf(r) \notin DOMAIN weather_cache')]_vars

\* Paris stored, served once from the cache, and missed once its first
\* expiry had passed
C12_Witness ==
    /\ module = "server_cache"
    /\ \A r \in 1..3 : tasks[r].arguments = [city |-> "Paris"]
    /\ tasks[1].lookup = "miss" /\ ReturnedRecord(1)
    /\ tasks[2].lookup = "hit" /\ tasks[2].pc = "done"
    /\ tasks[3].lookup = "miss" /\ tasks[3].pc = "api"
    /\ "Paris" \notin DOMAIN weather_cache
    /\ now = TTL + 1


(* ---- C13 ---- *)
\* C13: the statistics summary is emitted exactly once per run, at stop and
\* never before, also when serving ends by an error, and never when startup
\* failed; it reports the values the counters have at that moment, which
\* are the totals over the requests handled in the run; a start begins with
\* the counters at zero and the cache empty.
C13_SummaryOnceAtStop ==
    /\ [](summary # None <=> phase \in {"stopped", "crashed"})
    /\ [][summary # None => summary' = summary]_vars
    /\ [][\A cause \in StopCauses :
            LifespanStop(cause) =>
                /\ summary'[1].api_calls = api_calls
                /\ summary'[1].cache_hits = cache_hits
                /\ summary'[1].cache_misses = cache_misses]_vars
    /\ [](summary # None =>
            /\ summary[1].cache_hits = Cardinality({r \in Reqs : tasks[r].lookup = "hit"})
            /\ summary[1].cache_misses = Cardinality({r \in Reqs : tasks[r].lookup = "miss"})
            /\ summary[1].api_calls = Cardinality({r \in Reqs : tasks[r].lookup = "miss"}))
    /\ [][LifespanStart =>
            /\ api_calls' = 0 /\ cache_hits' = 0 /\ cache_misses' = 0
            /\ DOMAIN weather_cache' = {}]_vars

\* a run that handled a miss, a hit and a rejected request and was then
\* ended by an error: its summary reports one api call, one hit, one miss
C13_Witness ==
    /\ phase = "crashed"
    /\ summary # None
    /\ summary[1].api_calls = 1 /\ summary[1].cache_hits = 1 /\ summary[1].cache_misses = 1
    /\ Raised(3)


(* ---- C14 ---- *)
\* C14: a request cancelled by the host transport while its provider call
\* is outstanding writes nothing to the cache: no entry is created or
\* replaced on its behalf.
C14_CancelledFetchWritesNothing ==
    [][\A r \in Reqs, o \in ProviderOutcomes :
        (ApiReturn(r, o) /\ tasks[r].cancelled) => weather_cache' = weather_cache]_vars


(* ---- C15 ---- *)
\* C15: in every step of a run each of api_calls, cache_hits and
\* cache_misses stays the same or increases by exactly 1; no hit, miss,
\* failed fetch, eviction or rejected request decreases or resets one.
C15_CountersStepByOne ==
    [][/\ api_calls' \in {api_calls, api_calls + 1}
       /\ cache_hits' \in {cache_hits, cache_hits + 1}
       /\ cache_misses' \in {cache_misses, cache_misses + 1}]_vars

\* two misses, then the eviction of an expired entry counted as the third
C15_Witness ==
    /\ module = "server_cache"
    /\ tasks[1].arguments = [city |-> "Paris"] /\ ReturnedRecord(1)
    /\ tasks[2].arguments = [city |-> "paris"] /\ ReturnedError(2)
    /\ tasks[3].arguments = [city |-> "Paris"] /\ tasks[3].pc = "api"
    /\ cache_misses = 3 /\ api_calls = 3 /\ cache_hits = 0
    /\ DOMAIN weather_cache = {}

(* ---- C16 ---- *)
\* C16: every cache miss leads to exactly one provider invocation and
\* nothing else does: api_calls = cache_misses whenever no request is inside
\* the handler (and also while one is), each request that missed invoked the
\* provider once, and the handler's return adds no further invocation
\* whether the provider call succeeded or failed.
C16_OneProviderCallPerMiss ==
    /\ [](module = "server_cache" =>
            /\ api_calls = cache_misses
            /\ api_calls = Cardinality({r \in Reqs : tasks[r].lookup = "miss"}))
    /\ [][\A r \in Reqs, o \in ProviderOutcomes :
            ApiReturn(r, o) => (api_calls' = api_calls /\ tasks'[r].pc = "done")]_vars
    /\ [][\A r \in Reqs :
            HandleCallTool(r) =>
                /\ tasks'[r].lookup = "miss" => api_calls' = api_calls + 1
                /\ tasks'[r].lookup # "miss" => api_calls' = api_calls]_vars

\* no request inside the handler, after a successful fetch, a hit and a
\* failed fetch: two misses, two provider calls
C16_Witness ==
    /\ module = "server_cache"
    /\ running = 0
    /\ ReturnedRecord(1) /\ tasks[1].lookup = "miss"
    /\ tasks[2].lookup = "hit" /\ tasks[2].pc = "done"
    /\ ReturnedError(3) /\ tasks[3].lookup = "miss"
    /\ api_calls = 2 /\ cache_misses = 2

(* ---- C17 ---- *)
\* C17: eviction is lazy and per key: a request for city C never removes or
\* changes the entry of another city, the passing of time changes no entry,
\* and an entry leaves the cache only in a lookup of its own city; so an
\* expired entry stays while other cities are requested, and the cache can
\* hold an entry for every city fetched, expired ones included.
C17_LazyPerKeyEviction ==
    /\ [][\A r \in Reqs :
            ((HandleCallTool(r) \/ \E o \in ProviderOutcomes : ApiReturn(r, o)) /\ HasCity(r)) =>
                \A d \in DOMAIN weather_cache \ {CityOf(r)} :
                    d \in DOMAIN weather_cache' /\ weather_cache'[d] = weather_cache[d]]_vars
    /\ [][\A d \in DOMAIN weather_cache :
            d \notin DOMAIN weather_cache' =>
                \E r \in Reqs : /\ HandleCallTool(r) /\ HasCity(r) /\ CityOf(r) = d
                                /\ weather_cache[d].expire_at < now]_vars
    /\ [][Tick => weather_cache' = weather_cache]_vars

\* the entry of "Paris" has expired and is still held after a request for
\* "paris" looked up and stored its own entry
C17_Witness ==
    /\ module = "server_cache"
    /\ tasks[1].arguments = [city |-> "Paris"] /\ ReturnedRecord(1)
    /\ tasks[2].arguments = [city |-> "paris"] /\ ReturnedRecord(2)
    /\ DOMAIN weather_cache = {"Paris", "paris"}
    /\ weather_cache["Paris"].expire_at < now
    /\ weather_cache["paris"].expire_at = now + TTL

(* ---- C18 ---- *)
\* C18: every cache entry was stored by a successful provider fetch: its
\* data is a weather record without an error field, and its expire_at is
\* the time it was stored plus 5 minutes; so a record returned by a cache
\* hit was stored no more than 5 minutes before the hit, and an error
\* result is never returned from the cache.
C18_EntriesAreFreshRecords ==
    /\ [](\A c \in DOMAIN weather_cache :
            /\ "error" \notin DOMAIN weather_cache[c].data
            /\ \E r \in Reqs : /\ tasks[r].lookup = "miss" /\ ReturnedRecord(r)
                               /\ tasks[r].out[1].ret = weather_cache[c].data
            /\ weather_cache[c].expire_at - TTL \in 0..now)
    /\ [][\A r \in Reqs, o \in ProviderOutcomes :
            (ApiReturn(r, o) /\ weather_cache' # weather_cache) =>
                (o = "ok" /\ weather_cache'[CityOf(r)].expire_at = now + TTL)]_vars
    /\ [][\A r \in Reqs :
            (HandleCallTool(r) /\ tasks'[r].lookup = "hit") =>
                /\ now - (weather_cache[CityOf(r)].expire_at - TTL) <= TTL
                /\ "error" \notin DOMAIN tasks'[r].out[1].ret]_vars

\* a hit served at the very end of the entry's five minutes
C18_Witness ==
    /\ module = "server_cache"
    /\ tasks[2].lookup = "hit" /\ tasks[2].pc = "done"
    /\ tasks[3].pc = "idle"
    /\ CityOf(2) \in DOMAIN weather_cache
    /\ weather_cache[CityOf(2)].expire_at = now
    /\ tasks[2].out[1].ret = weather_cache[CityOf(2)].data


====
